---- MODULE Spec2Model ----
(***************************************************************************)
(* Model of merge-videos.py: a batch job that downloads four clips, probes *)
(* each for an audio stream, builds one ffmpeg command (one of two filter  *)
(* graph shapes), runs it once, verifies the output and removes the        *)
(* downloaded clips.                                                       *)
(*                                                                         *)
(* The file system, the network (urlretrieve), ffprobe and ffmpeg are the  *)
(* environment: their outcomes are chosen nondeterministically.            *)
(***************************************************************************)
EXTENDS Integers, Sequences, FiniteSets, TLC

(* ---------------------------------------------------------------------- *)
(* Bounds of the model                                                      *)
(* ---------------------------------------------------------------------- *)

\* longest VIDEO_URLS list that is tried (the program wants exactly 4)
MaxVideos == 5

\* the locators a VIDEO_URLS entry is drawn from
Locators == {"http://a", "http://b"}

\* values of HOOK_TEXT / TITLE_TEXT ('AMAZING' and 'Viral Video' are the
\* defaults, IT'S is a text with a quote). A text is kept as the list of its
\* pieces: each character that the filter syntax can read specially
\* (' , : = \ %) on its own, and the runs of other characters between them.
Hooks == {<<"AMAZING">>, <<"IT", "'", "S">>}
Titles == {<<"Viral Video">>}

(* ---------------------------------------------------------------------- *)
(* Program constants                                                        *)
(* ---------------------------------------------------------------------- *)

\* download_video(url, filename, max_retries=3)
max_retries == 3

\* if not videos or len(videos) != 4
NeededVideos == 4

\* for i in range(4) in both branches of the command builder
RangeFour == 4

\* merge_videos_with_text(..., output="final.mp4")
output == "final.mp4"

\* Python's None
None == "None"

\* filename = f"video_{i}.mp4"
filename(i) == "video_" \o ToString(i) \o ".mp4"

\* every path the program touches in its working directory
Files == {filename(k) : k \in 0..(MaxVideos - 1)} \cup {output}

\* a path that is not there
Absent == [exists |-> FALSE, size |-> 0, src |-> None]

\* ffmpeg_cmd before the command is built
NoCommand == [argv0 |-> None, inputs |-> <<>>, lavfi |-> <<>>,
              filter_complex |-> <<>>, maps |-> <<>>, options |-> <<>>,
              out |-> None]

VARIABLES
    videos,          \* json.loads(VIDEO_URLS)
    hook,            \* HOOK_TEXT
    title,           \* TITLE_TEXT
    pc,              \* position of the single thread of control
    fs,              \* working directory: path -> [exists, size, src]
    i,               \* loop variable of `for i, video_url in enumerate(videos)`
    attempt,         \* loop variable of `for attempt in range(max_retries)`
    downloaded,      \* value returned by download_video
    video_files,     \* list of accepted local files
    has_real_audio,  \* job-level audio flag
    ffmpeg_cmd,      \* the command handed to subprocess.run
    exit_status,     \* -1 while running, else the process exit status
    printed,         \* tags of the messages written so far
    outcomes,        \* how each attempt of the current download_video call ended
    sleeps,          \* time.sleep(2) calls of the current download_video call
    exhausted,       \* ordinals whose 3 attempts have all failed
    probed,          \* results of analyze_video on the inputs, in call order
    report,          \* what ffprobe gave on the last analyze_video call
    ffmpeg_runs,     \* number of subprocess.run(ffmpeg_cmd) calls
    returncode,      \* end of the ffmpeg call: none, 0, nonzero, OSError
    removed          \* os.remove calls of the cleanup loop that were made

vars == <<videos, hook, title, pc, fs, i, attempt, downloaded, video_files,
          has_real_audio, ffmpeg_cmd, exit_status, printed, outcomes, sleeps,
          exhausted, probed, report, ffmpeg_runs, returncode, removed>>

\* os.path.exists / os.path.getsize
exists(f) == fs[f].exists
getsize(f) == fs[f].size

\* all lists of locators of length 0..MaxVideos
VideoLists == UNION {[1..n -> Locators] : n \in 0..MaxVideos}

\* video_url of enumerate(videos) at index k (Python counts from 0)
video_url(k) == videos[k + 1]

Init ==
    /\ videos \in VideoLists
    /\ hook \in Hooks
    /\ title \in Titles
    /\ pc = "main"
    /\ fs = [f \in Files |-> Absent]
    /\ i = 0
    /\ attempt = 0
    /\ downloaded = None
    /\ video_files = <<>>
    /\ has_real_audio = FALSE
    /\ ffmpeg_cmd = NoCommand
    /\ exit_status = -1
    /\ printed = {}
    /\ outcomes = <<>>
    /\ sleeps = 0
    /\ exhausted = {}
    /\ probed = <<>>
    /\ report = None
    /\ ffmpeg_runs = 0
    /\ returncode = "none"
    /\ removed = {}

\* sys.exit(code) with a message printed just before it
Exit(code, msg) ==
    /\ pc' = "exit"
    /\ exit_status' = code
    /\ printed' = printed \cup msg

(* ---------------------------------------------------------------------- *)
(* __main__                                                                 *)
(* ---------------------------------------------------------------------- *)

\* the guard with the length test left out: only the empty list is refused
BadCount_EmptyOnly == videos = <<>>

\* the guard refusing only the empty list and lists longer than four
BadCount_TooManyOnly == videos = <<>> \/ Len(videos) > NeededVideos

\* the guard of `if not videos or len(videos) != 4`
BadCount == videos = <<>> \/ Len(videos) # NeededVideos

\* wrong number of locators: ERROR, sys.exit(1)
MainReject ==
    /\ pc = "main"
    /\ BadCount
    /\ Exit(1, {"ERROR: Need exactly 4 video URLs"})
    /\ UNCHANGED <<videos, hook, title, fs, i, attempt, downloaded,
                   video_files, has_real_audio, ffmpeg_cmd, outcomes, sleeps,
                   probed, report, ffmpeg_runs, removed, returncode,
                   exhausted>>

\* four locators: enter merge_videos_with_text, start the first download
MainAccept ==
    /\ pc = "main"
    /\ ~BadCount
    /\ video_files' = <<>>
    /\ has_real_audio' = FALSE
    /\ i' = 0
    /\ attempt' = 0
    /\ outcomes' = <<>>
    /\ sleeps' = 0
    /\ pc' = "attempt"
    /\ UNCHANGED <<videos, hook, title, fs, downloaded, ffmpeg_cmd,
                   exit_status, printed, probed, report, ffmpeg_runs, removed,
                   returncode, exhausted>>

(* ---------------------------------------------------------------------- *)
(* download_video: one action per way an iteration of the retry loop ends   *)
(* ---------------------------------------------------------------------- *)

\* what urllib.request.urlretrieve(url, filename) can leave at filename when
\* it returns normally: the whole body (possibly of length 0), or nothing
\* when the file is taken away before the check
Retrieved(url) == {[exists |-> TRUE, size |-> 1, src |-> url],
                   [exists |-> TRUE, size |-> 0, src |-> url],
                   Absent}

\* what it can leave when it raises: the path as it was, or a partial file
Interrupted(url, old) == {old, [exists |-> TRUE, size |-> 1, src |-> url]}

\* how an attempt that returned is recorded in `outcomes`: by what is on disk
Landed(file) == IF file.exists /\ file.size > 0 THEN "ok" ELSE "bad"

\* the acceptance test with the size test left out
FileIsGood_ExistsOnly(file) == file.exists

\* line 16: os.path.exists(filename) and os.path.getsize(filename) > 0
FileIsGood(file) == file.exists /\ file.size > 0

\* the `for attempt in range(max_retries)` header after an iteration that
\* neither returned nor raised: next attempt, or fall out to `return None`
NextAttempt ==
    IF attempt + 1 < max_retries
    THEN /\ attempt' = attempt + 1
         /\ UNCHANGED <<pc, downloaded>>
    ELSE /\ attempt' = attempt
         /\ downloaded' = None
         /\ pc' = "downloaded"

\* the same with a failure of an earlier attempt remembered: a good file
\* is returned only from the first attempt, later ones give None
UrlretrieveGood_FirstOnly ==
    /\ pc = "attempt"
    /\ \E file \in Retrieved(video_url(i)) :
         /\ FileIsGood(file)
         /\ fs' = [fs EXCEPT ![filename(i)] = file]
         /\ outcomes' = Append(outcomes, Landed(file))
         /\ exhausted' = IF Len(outcomes) = 2 /\ Landed(file) = "bad"
                         THEN exhausted \cup {i} ELSE exhausted
    /\ downloaded' = IF attempt = 0 THEN filename(i) ELSE None
    /\ pc' = "downloaded"
    /\ UNCHANGED <<videos, hook, title, i, attempt, video_files,
                   has_real_audio, ffmpeg_cmd, exit_status, printed, sleeps,
                   probed, report, ffmpeg_runs, removed, returncode>>

\* lines 14-18: retrieval returns and the file is there and non-empty
UrlretrieveGood ==
    /\ pc = "attempt"
    /\ \E file \in Retrieved(video_url(i)) :
         /\ FileIsGood(file)
         /\ fs' = [fs EXCEPT ![filename(i)] = file]
         /\ outcomes' = Append(outcomes, Landed(file))
         /\ exhausted' = IF Len(outcomes) = 2 /\ Landed(file) = "bad"
                         THEN exhausted \cup {i} ELSE exhausted
    /\ downloaded' = filename(i)
    /\ pc' = "downloaded"
    /\ UNCHANGED <<videos, hook, title, i, attempt, video_files,
                   has_real_audio, ffmpeg_cmd, exit_status, printed, sleeps,
                   probed, report, ffmpeg_runs, removed, returncode>>

\* lines 14-16, 12/25: retrieval returns but the file is missing or empty;
\* no except clause runs, so no sleep
UrlretrieveBad ==
    /\ pc = "attempt"
    /\ \E file \in Retrieved(video_url(i)) :
         /\ ~FileIsGood(file)
         /\ fs' = [fs EXCEPT ![filename(i)] = file]
         /\ outcomes' = Append(outcomes, Landed(file))
    /\ NextAttempt
    /\ exhausted' = IF Len(outcomes) = 2
                    THEN exhausted \cup {i} ELSE exhausted
    /\ UNCHANGED <<videos, hook, title, i, video_files, has_real_audio,
                   ffmpeg_cmd, exit_status, printed, sleeps, probed, report,
                   ffmpeg_runs, removed, returncode>>

\* line 21: attempt < max_retries - 1
MayRetry(a) == a < max_retries - 1

\* lines 19-24 (and 71-73 when the last attempt re-raises): retrieval raises
UrlretrieveRaises ==
    /\ pc = "attempt"
    /\ \E file \in Interrupted(video_url(i), fs[filename(i)]) :
         fs' = [fs EXCEPT ![filename(i)] = file]
    /\ outcomes' = Append(outcomes, "raise")
    /\ IF MayRetry(attempt)
       THEN /\ sleeps' = sleeps + 1
            /\ attempt' = attempt + 1
            /\ UNCHANGED <<pc, exit_status, printed>>
       ELSE /\ Exit(1, {"ERROR downloading video"})
            /\ UNCHANGED <<sleeps, attempt>>
    /\ exhausted' = IF Len(outcomes) = 2
                    THEN exhausted \cup {i} ELSE exhausted
    /\ UNCHANGED <<videos, hook, title, i, downloaded, video_files,
                   has_real_audio, ffmpeg_cmd, probed, report, ffmpeg_runs,
                   removed, returncode>>

(* ---------------------------------------------------------------------- *)
(* merge_videos_with_text: the download/analyze loop                        *)
(* ---------------------------------------------------------------------- *)

\* the same with the file put at the front of video_files
Accept_Prepend ==
    /\ pc = "downloaded"
    /\ downloaded # None
    /\ video_files' = <<filename(i)>> \o video_files
    /\ pc' = "analyze"
    /\ UNCHANGED <<videos, hook, title, fs, i, attempt, downloaded,
                   has_real_audio, ffmpeg_cmd, exit_status, printed, outcomes,
                   sleeps, probed, report, ffmpeg_runs, removed, returncode,
                   exhausted>>

\* the same with the analysis put off: the loop goes on to the next locator
Accept_SkipProbe ==
    /\ pc = "downloaded"
    /\ downloaded # None
    /\ video_files' = Append(video_files, filename(i))
    /\ i' = i + 1
    /\ IF i + 1 < Len(videos)
       THEN /\ pc' = "attempt"
            /\ attempt' = 0
            /\ outcomes' = <<>>
            /\ sleeps' = 0
       ELSE /\ pc' = "plan"
            /\ UNCHANGED <<attempt, outcomes, sleeps>>
    /\ UNCHANGED <<videos, hook, title, fs, downloaded, has_real_audio,
                   ffmpeg_cmd, exit_status, printed, probed, report,
                   ffmpeg_runs, removed, returncode, exhausted>>

\* lines 62-63: `if downloaded:` true, the file joins video_files
Accept ==
    /\ pc = "downloaded"
    /\ downloaded # None
    /\ video_files' = Append(video_files, filename(i))
    /\ pc' = "analyze"
    /\ UNCHANGED <<videos, hook, title, fs, i, attempt, downloaded,
                   has_real_audio, ffmpeg_cmd, exit_status, printed, outcomes,
                   sleeps, probed, report, ffmpeg_runs, removed, returncode,
                   exhausted>>

\* the same without the sys.exit(1): the input is skipped and the loop
\* goes on
FailDownload_Skip ==
    /\ pc = "downloaded"
    /\ downloaded = None
    /\ printed' = printed \cup {"ERROR: Failed to download video"}
    /\ i' = i + 1
    /\ IF i + 1 < Len(videos)
       THEN /\ pc' = "attempt"
            /\ attempt' = 0
            /\ outcomes' = <<>>
            /\ sleeps' = 0
       ELSE /\ pc' = "plan"
            /\ UNCHANGED <<attempt, outcomes, sleeps>>
    /\ UNCHANGED <<videos, hook, title, fs, downloaded, video_files,
                   has_real_audio, ffmpeg_cmd, exit_status, probed, report,
                   ffmpeg_runs, removed, returncode, exhausted>>

\* the same with the None result analyzed like a file
FailDownload_ProbeAnyway ==
    /\ pc = "downloaded"
    /\ downloaded = None
    /\ printed' = printed \cup {"ERROR: Failed to download video"}
    /\ pc' = "analyze"
    /\ UNCHANGED <<videos, hook, title, fs, i, attempt, downloaded,
                   video_files, has_real_audio, ffmpeg_cmd, exit_status,
                   outcomes, sleeps, probed, report, ffmpeg_runs, removed,
                   returncode, exhausted>>

\* lines 68-70: download_video returned None
FailDownload ==
    /\ pc = "downloaded"
    /\ downloaded = None
    /\ Exit(1, {"ERROR: Failed to download video"})
    /\ UNCHANGED <<videos, hook, title, fs, i, attempt, downloaded,
                   video_files, has_real_audio, ffmpeg_cmd, outcomes, sleeps,
                   probed, report, ffmpeg_runs, removed, returncode,
                   exhausted>>

\* what the ffprobe call of analyze_video can give: subprocess.run raises
\* (no ffprobe), or stdout is empty, an empty object, an object with an
\* empty stream list, or an object with one audio stream
Reports == {"OSError", "", "{}", "{\"streams\": []}", "{\"streams\": [{}]}"}

\* json.loads(result.stdout) raises on text that is not JSON
LoadsRaises(stdout) == stdout = ""

\* data.get('streams'): number of streams in the parsed report
Streams(stdout) == IF stdout = "{\"streams\": [{}]}" THEN 1 ELSE 0

\* analyze_video with the except clause answering True
analyze_video_ErrorIsAudio(rep) ==
    IF rep = "OSError" \/ LoadsRaises(rep)
    THEN TRUE
    ELSE Streams(rep) > 0

\* analyze_video, lines 29-49: True only when the report lists a stream;
\* every exception gives False
analyze_video(rep) ==
    IF rep = "OSError" \/ LoadsRaises(rep)
    THEN FALSE
    ELSE Streams(rep) > 0

\* the flag overwritten by each result (has_real_audio = has_audio)
OrAudio_LastWins(flag, has_audio) == has_audio

\* lines 66-67: has_real_audio after one more analysis result
OrAudio(flag, has_audio) == IF has_audio THEN TRUE ELSE flag

\* lines 64-67, then the loop header 58-59: analyze the accepted file and
\* go on to the next locator, or leave the loop
AnalyzeInput ==
    /\ pc = "analyze"
    /\ \E rep \in Reports :
         /\ report' = rep
         /\ probed' = Append(probed, analyze_video(rep))
         /\ has_real_audio' = OrAudio(has_real_audio, analyze_video(rep))
    /\ i' = i + 1
    /\ IF i + 1 < Len(videos)
       THEN /\ pc' = "attempt"
            /\ attempt' = 0
            /\ outcomes' = <<>>
            /\ sleeps' = 0
       ELSE /\ pc' = "plan"
            /\ UNCHANGED <<attempt, outcomes, sleeps>>
    /\ UNCHANGED <<videos, hook, title, fs, downloaded, video_files,
                   ffmpeg_cmd, exit_status, printed, ffmpeg_runs, removed,
                   returncode, exhausted>>

(* ---------------------------------------------------------------------- *)
(* merge_videos_with_text: the ffmpeg command, lines 78-187                 *)
(*                                                                         *)
(* The command is kept structured: the -i inputs, the lavfi input, the     *)
(* filter graph as a list of chains [ins, filters, outs], the -map list,   *)
(* the remaining options and the output path.                              *)
(* ---------------------------------------------------------------------- *)

\* "[{i}:v]scale=...,pad=...,setsar=1[v{i}];" (lines 102 and 150)
ScaleChain(k) ==
    [ins |-> << ToString(k) \o ":v" >>,
     filters |-> << [name |-> "scale", w |-> 1080, h |-> 1920,
                     force_original_aspect_ratio |-> "decrease"],
                    [name |-> "pad", w |-> 1080, h |-> 1920,
                     x |-> "(ow-iw)/2", y |-> "(oh-ih)/2"],
                    [name |-> "setsar", sar |-> 1] >>,
     outs |-> << "v" \o ToString(k) >>]

\* "[{i}:a]aresample=48000,aformat=fltp[a{i}];" (line 152)
ResampleChain(k) ==
    [ins |-> << ToString(k) \o ":a" >>,
     filters |-> << [name |-> "aresample", rate |-> 48000],
                    [name |-> "aformat", fmt |-> "fltp"] >>,
     outs |-> << "a" \o ToString(k) >>]

\* "[v0][v1][v2][v3]concat=n=4:v=1:a=0[outv];" (lines 105 and 158)
ConcatVideoChain ==
    [ins |-> <<"v0", "v1", "v2", "v3">>,
     filters |-> << [name |-> "concat", n |-> 4, v |-> 1, a |-> 0] >>,
     outs |-> <<"outv">>]

\* "[v0][a0][v1][a1][v2][a2][v3][a3]concat=n=4:v=1:a=1[outv][outa];" (line 156)
ConcatPairsChain ==
    [ins |-> <<"v0", "a0", "v1", "a1", "v2", "a2", "v3", "a3">>,
     filters |-> << [name |-> "concat", n |-> 4, v |-> 1, a |-> 1] >>,
     outs |-> <<"outv", "outa">>]

\* one drawtext filter as the f-string spells it, piece by piece: the text
\* goes between two quotes as it is, with no escaping
Drawtext(text, fontfile, fontsize, fontcolor, borderw, y, lo, hi) ==
    <<"drawtext", "=", "text", "=", "'">> \o text \o
    <<"'", ":", "fontfile", "=", fontfile,
      ":", "fontsize", "=", fontsize,
      ":", "fontcolor", "=", fontcolor,
      ":", "borderw", "=", borderw,
      ":", "bordercolor", "=", "black",
      ":", "x", "=", "(w-text_w)/2",
      ":", "y", "=", y,
      ":", "enable", "=", "'", "between(t", ",", lo, ",", hi, ")", "'">>

\* the overlay text with the title drawn first and the hook last
OverlayText_Swapped(hk, tl) ==
    Drawtext(tl, "/usr/share/fonts/truetype/dejavu/DejaVuSans-Bold.ttf",
             "80", "yellow", "4", "150", "0", "3")
    \o <<",">> \o
    Drawtext(hk, "/usr/share/fonts/truetype/dejavu/DejaVuSans.ttf",
             "50", "white", "3", "h-150", "17", "20")

\* the text between "[outv]" and "[final]" (lines 108-115 and 161-168)
OverlayText(hk, tl) ==
    Drawtext(hk, "/usr/share/fonts/truetype/dejavu/DejaVuSans-Bold.ttf",
             "80", "yellow", "4", "150", "0", "3")
    \o <<",">> \o
    Drawtext(tl, "/usr/share/fonts/truetype/dejavu/DejaVuSans.ttf",
             "50", "white", "3", "h-150", "17", "20")

\* the two drawtext filters on [outv] (lines 108-115 and 161-168): the
\* options as the template names them, and in `raw` the text as written
OverlayChain(hk, tl) ==
    [ins |-> <<"outv">>,
     filters |-> << [name |-> "drawtext", text |-> hk,
                     fontfile |-> "/usr/share/fonts/truetype/dejavu/DejaVuSans-Bold.ttf",
                     fontsize |-> 80, fontcolor |-> "yellow", borderw |-> 4,
                     bordercolor |-> "black", x |-> "(w-text_w)/2", y |-> "150",
                     enable |-> [fn |-> "between", lo |-> 0, hi |-> 3]],
                    [name |-> "drawtext", text |-> tl,
                     fontfile |-> "/usr/share/fonts/truetype/dejavu/DejaVuSans.ttf",
                     fontsize |-> 50, fontcolor |-> "white", borderw |-> 3,
                     bordercolor |-> "black", x |-> "(w-text_w)/2", y |-> "h-150",
                     enable |-> [fn |-> "between", lo |-> 17, hi |-> 20]] >>,
     raw |-> OverlayText(hk, tl),
     outs |-> <<"final">>]

\* '-f lavfi -i sine=frequency=440:duration=20:sample_rate=48000' (lines 92-95)
SineInput == [f |-> "lavfi", src |-> "sine", frequency |-> 440,
              duration |-> 20, sample_rate |-> 48000]

\* the same with the fade-out two seconds earlier (st=16)
SineChain_EarlyFade ==
    [ins |-> <<"4:a">>,
     filters |-> << [name |-> "afade", type |-> "in", st |-> 0, d |-> 1],
                    [name |-> "afade", type |-> "out", st |-> 16, d |-> 2],
                    [name |-> "volume", volume |-> "0.1"] >>,
     outs |-> <<"audio">>]

\* "[4:a]afade=t=in:st=0:d=1,afade=t=out:st=18:d=2,volume=0.1[audio]" (line 118)
SineChain ==
    [ins |-> <<"4:a">>,
     filters |-> << [name |-> "afade", type |-> "in", st |-> 0, d |-> 1],
                    [name |-> "afade", type |-> "out", st |-> 18, d |-> 2],
                    [name |-> "volume", volume |-> "0.1"] >>,
     outs |-> <<"audio">>]

\* the chains one pass of the loop at lines 149-152 adds
ClipChains(k, audio) ==
    <<ScaleChain(k)>> \o (IF audio THEN <<ResampleChain(k)>> ELSE <<>>)

\* the loop at lines 149-152 over range(n)
RECURSIVE ClipLoop(_, _)
ClipLoop(n, audio) ==
    IF n = 0 THEN <<>>
    ELSE ClipLoop(n - 1, audio) \o ClipChains(n - 1, audio)

\* line 78: `if not has_real_audio` picks the synthesized-audio branch
Synthesize(audio) == ~audio

\* lines 83-134: the command when no input has audio
CommandA(files, hk, tl, out) ==
    [argv0 |-> "ffmpeg",
     inputs |-> files,
     lavfi |-> <<SineInput>>,
     filter_complex |-> [k \in 1..RangeFour |-> ScaleChain(k - 1)]
                        \o <<ConcatVideoChain, OverlayChain(hk, tl), SineChain>>,
     maps |-> <<"final", "audio">>,
     options |-> <<"-c:v", "libx264", "-preset", "fast", "-crf", "23",
                   "-c:a", "aac", "-b:a", "128k", "-ar", "48000",
                   "-shortest", "-movflags", "+faststart", "-y">>,
     out |-> out]

\* lines 139-187: the command when some input has audio
CommandB(files, audio, hk, tl, out) ==
    [argv0 |-> "ffmpeg",
     inputs |-> files,
     lavfi |-> <<>>,
     filter_complex |-> ClipLoop(RangeFour, audio)
                        \o <<IF audio THEN ConcatPairsChain ELSE ConcatVideoChain,
                             OverlayChain(hk, tl)>>,
     maps |-> <<"final">> \o (IF audio THEN <<"outa">> ELSE <<>>),
     options |-> <<"-c:v", "libx264", "-preset", "fast", "-crf", "23",
                   "-c:a", "aac", "-b:a", "128k", "-movflags", "+faststart",
                   "-y">>,
     out |-> out]

\* the builder with the video-only branch of lines 157-158 taken
BuildCommand_VideoOnlyBranch(files, audio, hk, tl, out) ==
    IF Synthesize(audio)
    THEN CommandA(files, hk, tl, out)
    ELSE CommandB(files, FALSE, hk, tl, out)

\* lines 78-187
BuildCommand(files, audio, hk, tl, out) ==
    IF Synthesize(audio)
    THEN CommandA(files, hk, tl, out)
    ELSE CommandB(files, audio, hk, tl, out)

\* lines 75-190: build the command
Plan ==
    /\ pc = "plan"
    /\ ffmpeg_cmd' = BuildCommand(video_files, has_real_audio, hook, title, output)
    /\ pc' = "run"
    /\ UNCHANGED <<videos, hook, title, fs, i, attempt, downloaded,
                   video_files, has_real_audio, exit_status, printed,
                   outcomes, sleeps, probed, report, ffmpeg_runs, removed,
                   returncode, exhausted>>

(* ---------------------------------------------------------------------- *)
(* merge_videos_with_text: run, verify, report, clean up (lines 192-217)    *)
(* ---------------------------------------------------------------------- *)

\* what ffmpeg can leave at the output path, whatever its exit status
Encoded == {Absent,
            [exists |-> TRUE, size |-> 0, src |-> "ffmpeg"],
            [exists |-> TRUE, size |-> 1, src |-> "ffmpeg"]}

\* lines 193-194: subprocess.run(ffmpeg_cmd, check=True) returns (exit status 0)
FfmpegOk ==
    /\ pc = "run"
    /\ ffmpeg_runs' = ffmpeg_runs + 1
    /\ returncode' = "0"
    /\ \E file \in Encoded : fs' = [fs EXCEPT ![ffmpeg_cmd.out] = file]
    /\ printed' = printed \cup {"Video merged successfully!"}
    /\ pc' = "verify"
    /\ UNCHANGED <<videos, hook, title, i, attempt, downloaded, video_files,
                   has_real_audio, ffmpeg_cmd, exit_status, outcomes, sleeps,
                   probed, report, removed, exhausted>>

\* the same without check=True: the failure is printed and the run goes on
\* to the output check
FfmpegFails_Continue ==
    /\ pc = "run"
    /\ ffmpeg_runs' = ffmpeg_runs + 1
    /\ returncode' = "nonzero"
    /\ \E file \in Encoded : fs' = [fs EXCEPT ![ffmpeg_cmd.out] = file]
    /\ printed' = printed \cup {"ERROR: FFmpeg failed"}
    /\ pc' = "verify"
    /\ UNCHANGED <<videos, hook, title, i, attempt, downloaded, video_files,
                   has_real_audio, ffmpeg_cmd, exit_status, outcomes, sleeps,
                   probed, report, removed, exhausted>>

\* lines 195-198: non-zero exit status, CalledProcessError, sys.exit(1)
FfmpegFails ==
    /\ pc = "run"
    /\ ffmpeg_runs' = ffmpeg_runs + 1
    /\ returncode' = "nonzero"
    /\ \E file \in Encoded : fs' = [fs EXCEPT ![ffmpeg_cmd.out] = file]
    /\ Exit(1, {"ERROR: FFmpeg failed"})
    /\ UNCHANGED <<videos, hook, title, i, attempt, downloaded, video_files,
                   has_real_audio, ffmpeg_cmd, outcomes, sleeps, probed,
                   report, removed, exhausted>>

\* line 193 raising something else (no ffmpeg binary): not caught at 195,
\* caught by `except Exception` at 237-239
FfmpegMissing ==
    /\ pc = "run"
    /\ ffmpeg_runs' = ffmpeg_runs + 1
    /\ returncode' = "OSError"
    /\ Exit(1, {"FATAL ERROR"})
    /\ UNCHANGED <<videos, hook, title, fs, i, attempt, downloaded,
                   video_files, has_real_audio, ffmpeg_cmd, outcomes, sleeps,
                   probed, report, removed, exhausted>>

\* the output test with the size test left out
OutputBad_ExistsOnly(file) == ~file.exists

\* line 201: not os.path.exists(output) or os.path.getsize(output) == 0
OutputBad(file) == ~file.exists \/ file.size = 0

\* the same with the failure only printed: the run goes on to the report
VerifyFails_WarnOnly ==
    /\ pc = "verify"
    /\ OutputBad(fs[output])
    /\ printed' = printed \cup {"ERROR: Output file not created or is empty",
                                "File", "Size"}
    /\ \E rep \in Reports : report' = rep
    /\ pc' = "cleanup"
    /\ UNCHANGED <<videos, hook, title, fs, i, attempt, downloaded,
                   video_files, has_real_audio, ffmpeg_cmd, exit_status,
                   outcomes, sleeps, probed, ffmpeg_runs, removed, returncode,
                   exhausted>>

\* lines 201-203: the output is missing or empty
VerifyFails ==
    /\ pc = "verify"
    /\ OutputBad(fs[output])
    /\ Exit(1, {"ERROR: Output file not created or is empty"})
    /\ UNCHANGED <<videos, hook, title, fs, i, attempt, downloaded,
                   video_files, has_real_audio, ffmpeg_cmd, outcomes, sleeps,
                   probed, report, ffmpeg_runs, removed, returncode,
                   exhausted>>

\* lines 201, 205-208: the output is there; print its path and size and
\* analyze it (the result of that analysis is dropped)
VerifyOk ==
    /\ pc = "verify"
    /\ ~OutputBad(fs[output])
    /\ printed' = printed \cup {"File", "Size"}
    /\ \E rep \in Reports : report' = rep
    /\ pc' = "cleanup"
    /\ UNCHANGED <<videos, hook, title, fs, i, attempt, downloaded,
                   video_files, has_real_audio, ffmpeg_cmd, exit_status,
                   outcomes, sleeps, probed, ffmpeg_runs, removed, returncode,
                   exhausted>>

\* the elements of a list
Range(seq) == {seq[k] : k \in 1..Len(seq)}

\* lines 211-217 and 236: os.remove on every file of video_files, each
\* failure swallowed; return; SUCCESS; the process ends with status 0
Cleanup ==
    /\ pc = "cleanup"
    /\ removed' = Range(video_files)
    /\ \E failing \in SUBSET Range(video_files) :
         fs' = [f \in Files |->
                  IF f \in Range(video_files) /\ f \notin failing
                  THEN Absent ELSE fs[f]]
    /\ Exit(0, {"SUCCESS! Video processing complete."})
    /\ UNCHANGED <<videos, hook, title, i, attempt, downloaded, video_files,
                   has_real_audio, ffmpeg_cmd, outcomes, sleeps, probed,
                   report, ffmpeg_runs, returncode, exhausted>>

Next ==
    \/ MainReject
    \/ MainAccept
    \/ UrlretrieveGood
    \/ UrlretrieveBad
    \/ UrlretrieveRaises
    \/ Accept
    \/ FailDownload
    \/ AnalyzeInput
    \/ Plan
    \/ FfmpegOk
    \/ FfmpegFails
    \/ FfmpegMissing
    \/ VerifyFails
    \/ VerifyOk
    \/ Cleanup

Spec == Init /\ [][Next]_vars

\* the job has ended
Terminated == pc = "exit"

TypeOK ==
    /\ pc \in {"main", "attempt", "downloaded", "analyze", "plan", "run",
               "verify", "cleanup", "exit"}
    /\ exit_status \in {-1, 0, 1}
    /\ (exit_status = -1) <=> ~Terminated
    /\ attempt \in 0..(max_retries - 1)
    /\ i \in 0..Len(videos)
    /\ Len(outcomes) <= max_retries

(* ====================================================================== *)
(* Properties                                                               *)
(* ====================================================================== *)

\* the local files of the four inputs
InputFiles == {"video_0.mp4", "video_1.mp4", "video_2.mp4", "video_3.mp4"}

\* C1 (as stated): after any terminal outcome the cleanup loop has run over
\* the fetched files, and none of the fetched video_0.mp4..video_3.mp4 is
\* left, except a file whose os.remove was made and failed.
C1_CleanupOnEveryOutcome ==
    Terminated =>
        /\ removed = Range(video_files)
        /\ \A f \in InputFiles \cap Range(video_files) :
              fs[f].exists => f \in removed

\* C2: the exit status is 0 exactly when four inputs were fetched, ffmpeg
\* returned status 0 and the output exists with non-zero size; a wrong
\* number of locators, an exhausted download, an ffmpeg failure and a
\* failed output check all end with a non-zero status.
C2_ExitStatus ==
    Terminated =>
        /\ exit_status \in {0, 1}
        /\ (exit_status = 0) <=>
              /\ Len(videos) = 4
              /\ Len(video_files) = 4
              /\ returncode = "0"
              /\ fs["final.mp4"].exists
              /\ fs["final.mp4"].size > 0
        /\ Len(videos) # 4 => exit_status # 0
        /\ (Len(outcomes) = 3 /\ outcomes[3] # "ok") => exit_status # 0
        /\ returncode \in {"nonzero", "OSError"} => exit_status # 0
        /\ (returncode = "0" /\ (~fs["final.mp4"].exists \/ fs["final.mp4"].size = 0))
              => exit_status # 0

\* C2 witness: a run that ended with status 0
C2_Witness ==
    /\ Terminated
    /\ exit_status = 0
    /\ returncode = "0"
    /\ fs["final.mp4"].size > 0

\* C3: a list of locators whose length is not four (the empty list too) ends
\* with the input-count error, and no download attempt, probe or ffmpeg
\* call is ever made for it.
C3_InputCount ==
    Len(videos) # 4 =>
        /\ pc \in {"main", "exit"}
        /\ outcomes = <<>>
        /\ probed = <<>>
        /\ report = "None"
        /\ ffmpeg_runs = 0
        /\ \A f \in Files : ~fs[f].exists
        /\ Terminated =>
              /\ exit_status = 1
              /\ printed = {"ERROR: Need exactly 4 video URLs"}

\* C3 witness: a run with five locators that ended
C3_Witness ==
    /\ Len(videos) = 5
    /\ Terminated
    /\ exit_status = 1

\* the messages of the two ways a download ends the job (lines 69 and 72)
FetchErrors == {"ERROR: Failed to download video", "ERROR downloading video"}

\* C4: when all 3 attempts for an input fail (raising, or leaving a missing
\* or empty file, in any mix) the job ends with a fetch error and ffmpeg is
\* never run.
C4_FetchExhausted ==
    exhausted # {} =>
        /\ ffmpeg_runs = 0
        /\ ffmpeg_cmd = NoCommand
        /\ exhausted = {i}
        /\ pc \in {"downloaded", "exit"}
        /\ pc = "downloaded" => downloaded = "None"
        /\ Terminated =>
              /\ exit_status = 1
              /\ printed \cap FetchErrors # {}

\* C4 witness: a mixed exhaustion (two empty results, then an error) on
\* the third input, after which the job has ended
C4_Witness ==
    /\ outcomes = <<"bad", "bad", "raise">>
    /\ exhausted = {2}
    /\ Terminated

\* the last attempt of the current download_video call left a good file
LastAttemptGood ==
    /\ outcomes # <<>>
    /\ outcomes[Len(outcomes)] = "ok"

\* C5: when an attempt succeeds after earlier attempts failed (attempts 1
\* and 2 fail, attempt 3 succeeds), download_video returns the file name,
\* the file joins video_files and is probed; the job does not end with a
\* fetch error.
C5_RetryThenSucceed ==
    LastAttemptGood =>
        /\ pc # "attempt"
        /\ downloaded = filename(IF pc \in {"downloaded", "analyze"} THEN i ELSE i - 1)
        /\ printed \cap FetchErrors = {}
        /\ pc # "downloaded" =>
              video_files[Len(video_files)] =
                 filename(IF pc = "analyze" THEN i ELSE i - 1)
        /\ pc \notin {"downloaded", "analyze"} =>
              /\ Len(probed) = Len(videos)
              /\ Len(video_files) = Len(videos)

\* C5 witness: two failed attempts, a third that succeeds, and the file is
\* about to be probed
C5_Witness ==
    /\ Len(outcomes) = 3
    /\ outcomes[1] # "ok"
    /\ outcomes[2] # "ok"
    /\ outcomes[3] = "ok"
    /\ pc = "analyze"

\* every attempt of the current download_video call returned and left a
\* missing or empty file
AllAttemptsEmpty ==
    /\ Len(outcomes) = 3
    /\ \A k \in 1..3 : outcomes[k] = "bad"

\* C6: a file is accepted only if it exists with non-zero size after the
\* attempt; an input whose file is missing or empty after each of the 3
\* attempts (none raising) ends the job with a fetch failure, and no later
\* input is downloaded or probed.
C6_AcceptOnlyNonEmpty ==
    /\ (pc = "downloaded" /\ downloaded # "None") =>
          /\ fs[downloaded].exists
          /\ fs[downloaded].size > 0
    /\ removed = {} =>
          \A k \in 1..Len(video_files) :
             /\ fs[video_files[k]].exists
             /\ fs[video_files[k]].size > 0
    /\ AllAttemptsEmpty =>
          /\ pc \in {"downloaded", "exit"}
          /\ downloaded = "None"
          /\ Len(video_files) = i
          /\ Len(probed) = i
          /\ \A j \in (i + 1)..(MaxVideos - 1) : ~fs[filename(j)].exists
          /\ ffmpeg_runs = 0
          /\ Terminated =>
                /\ exit_status = 1
                /\ "ERROR: Failed to download video" \in printed

\* C6 witness: the second input came back empty or missing three times and
\* the job has ended
C6_Witness ==
    /\ AllAttemptsEmpty
    /\ i = 1
    /\ fs["video_0.mp4"].size > 0
    /\ Terminated

(* ---------------------------------------------------------------------- *)
(* Reading a built command                                                  *)
(* ---------------------------------------------------------------------- *)

\* a command has been built
Built == ffmpeg_cmd.argv0 = "ffmpeg"

\* the positions of the chains of a filter graph that write a label
Producers(fc, label) ==
    {k \in 1..Len(fc) : \E j \in 1..Len(fc[k].outs) : fc[k].outs[j] = label}

\* the positions of the chains that start with a filter of a given name
ChainsOf(fc, name) == {k \in 1..Len(fc) : fc[k].filters[1].name = name}

\* the command has the synthesized-audio shape: a lavfi sine input whose
\* processed stream [audio] is mapped, and a video-only concat
IsVariantA(cmd) ==
    /\ Len(cmd.lavfi) = 1
    /\ cmd.maps = <<"final", "audio">>
    /\ Producers(cmd.filter_complex, "audio") # {}
    /\ Producers(cmd.filter_complex, "outa") = {}
    /\ \A k \in ChainsOf(cmd.filter_complex, "concat") :
          cmd.filter_complex[k].filters[1].a = 0

\* the command has the audio-preserving shape: no lavfi input, every
\* input's audio resampled, a concat of (video, audio) pairs, [outa] mapped
IsVariantB(cmd) ==
    /\ Len(cmd.lavfi) = 0
    /\ cmd.maps = <<"final", "outa">>
    /\ Producers(cmd.filter_complex, "audio") = {}
    /\ Producers(cmd.filter_complex, "outa") # {}
    /\ Cardinality(ChainsOf(cmd.filter_complex, "aresample")) = 4
    /\ \A k \in ChainsOf(cmd.filter_complex, "concat") :
          cmd.filter_complex[k].filters[1].a = 1

\* some probe of an input reported audio
AnyAudio == \E k \in 1..Len(probed) : probed[k]

\* C7: has_real_audio is the OR of the audio flags of the probed inputs
\* (all 16 combinations of four flags), and the command built has the
\* synthesized-audio shape exactly when it is false and the
\* audio-preserving shape exactly when it is true.
C7_AudioDecision ==
    /\ has_real_audio = AnyAudio
    /\ Built =>
          /\ Len(probed) = 4
          /\ IsVariantA(ffmpeg_cmd) <=> ~AnyAudio
          /\ IsVariantB(ffmpeg_cmd) <=> AnyAudio

\* C7 witness: only the second input has audio, and later inputs without
\* audio did not clear the flag; the command is built
C7_Witness ==
    /\ probed = <<FALSE, TRUE, FALSE, FALSE>>
    /\ pc = "run"
    /\ Built
    /\ IsVariantB(ffmpeg_cmd)

IsVideoLabel(l) == l \in {"v0", "v1", "v2", "v3"}
IsAudioLabel(l) == l \in {"a0", "a1", "a2", "a3"}

\* label is written by exactly one chain, and that chain reads only pad
FedBy(fc, label, pad) ==
    /\ Cardinality(Producers(fc, label)) = 1
    /\ \A k \in Producers(fc, label) : fc[k].ins = <<pad>>

\* C8: in every command built, input number k of ffmpeg is video_k.mp4,
\* which holds what was fetched from the k-th locator, and the one concat
\* stage takes the streams of inputs 0,1,2,3 in that order, each once.
C8_OrdinalOrder ==
    Built =>
        /\ ffmpeg_cmd.inputs =
              <<"video_0.mp4", "video_1.mp4", "video_2.mp4", "video_3.mp4">>
        /\ returncode = "none" =>
              \A k \in 1..4 :
                 /\ fs[ffmpeg_cmd.inputs[k]].exists
                 /\ fs[ffmpeg_cmd.inputs[k]].src = videos[k]
        /\ LET fc == ffmpeg_cmd.filter_complex
           IN  /\ Cardinality(ChainsOf(fc, "concat")) = 1
               /\ \A c \in ChainsOf(fc, "concat") :
                     /\ SelectSeq(fc[c].ins, IsVideoLabel) =
                           <<"v0", "v1", "v2", "v3">>
                     /\ SelectSeq(fc[c].ins, IsAudioLabel) \in
                           {<<>>, <<"a0", "a1", "a2", "a3">>}
                     /\ Len(fc[c].ins) \in {4, 8}
                     /\ Len(fc[c].ins) = 8 =>
                           \A k \in 1..4 : /\ IsVideoLabel(fc[c].ins[2 * k - 1])
                                           /\ IsAudioLabel(fc[c].ins[2 * k])
                     /\ fc[c].filters[1].n = 4
               /\ FedBy(fc, "v0", "0:v") /\ FedBy(fc, "v1", "1:v")
               /\ FedBy(fc, "v2", "2:v") /\ FedBy(fc, "v3", "3:v")
               /\ Producers(fc, "outa") # {} =>
                     /\ FedBy(fc, "a0", "0:a") /\ FedBy(fc, "a1", "1:a")
                     /\ FedBy(fc, "a2", "2:a") /\ FedBy(fc, "a3", "3:a")

\* C8 witness: a command is about to run on inputs fetched from locators
\* that differ, some fetched only on a retry
C8_Witness ==
    /\ pc = "run"
    /\ Built
    /\ videos = <<"http://a", "http://b", "http://b", "http://a">>
    /\ fs["video_1.mp4"].src = "http://b"
    /\ Len(outcomes) > 1

\* the sine input and the fade-out filter of a synthesized-audio command
SineOf(cmd) == cmd.lavfi[1]
FadeOutOf(cmd) ==
    LET fc == cmd.filter_complex
        c == fc[CHOOSE k \in 1..Len(fc) : fc[k].outs = <<"audio">>]
    IN  c.filters[CHOOSE j \in 1..Len(c.filters) :
                     /\ c.filters[j].name = "afade"
                     /\ c.filters[j].type = "out"]

C10_EncodeOnceNoRetry ==
    /\ ffmpeg_runs <= 1
    /\ (ffmpeg_runs = 1) <=> (returncode # "none")
    /\ returncode = "nonzero" =>
          /\ Terminated
          /\ exit_status = 1
          /\ "ERROR: FFmpeg failed" \in printed
          /\ printed \cap {"File", "Size", "Video merged successfully!",
                           "ERROR: Output file not created or is empty",
                           "SUCCESS! Video processing complete."} = {}

\* C10 witness: ffmpeg exited non-zero and left a non-empty file at the
\* output path
C10_Witness ==
    /\ returncode = "nonzero"
    /\ fs["final.mp4"].exists
    /\ fs["final.mp4"].size > 0
    /\ ffmpeg_runs = 1

\* C11: when ffmpeg exits zero but the output path is absent or empty, the
\* job ends with the output error and status 1; success and the output
\* path and size are never printed.
C11_VerifyOutput ==
    (returncode = "0" /\ (~fs["final.mp4"].exists \/ fs["final.mp4"].size = 0)) =>
        /\ pc \in {"verify", "exit"}
        /\ printed \cap {"File", "Size",
                         "SUCCESS! Video processing complete."} = {}
        /\ removed = {}
        /\ Terminated =>
              /\ exit_status = 1
              /\ "ERROR: Output file not created or is empty" \in printed

\* C11 witness: ffmpeg exited zero, left an empty file, and the job ended
C11_Witness ==
    /\ returncode = "0"
    /\ fs["final.mp4"].exists
    /\ fs["final.mp4"].size = 0
    /\ Terminated

\* the ffprobe results that are errors or list no stream: ffprobe cannot be
\* run, prints nothing parsable, or prints a report without streams
ProbeFailures == {"OSError", "", "{}", "{\"streams\": []}"}

\* C12: a probe of an input that fails (ffprobe cannot be run, or its report
\* is unparsable or lists no stream) gives audio-present = false for that
\* input, leaves has_real_audio as it was, and the job goes on to the next
\* download or to building the command; it never ends the job.
C12_ProbeFailOpen ==
    [][pc = "analyze" =>
          /\ pc' \in {"attempt", "plan"}
          /\ exit_status' = -1
          /\ Len(probed') = Len(probed) + 1
          /\ report' \in ProbeFailures =>
                /\ probed'[Len(probed')] = FALSE
                /\ has_real_audio' = has_real_audio]_vars

\* C12 witness: ffprobe could not be run on the first input and the second
\* download has started
C12_Witness ==
    /\ report = "OSError"
    /\ probed = <<FALSE>>
    /\ pc = "attempt"
    /\ i = 1
    /\ exit_status = -1

\* some probed input has audio and some probed input has none
MixedAudio ==
    /\ \E k \in 1..Len(probed) : probed[k]
    /\ \E k \in 1..Len(probed) : ~probed[k]

\* C14 (as stated): when has_real_audio is true and some input has no
\* audio, the command concatenates the four video streams only: no input's
\* audio stream is read, resampled or mapped.
C14_MixedBatchVideoOnly ==
    (Built /\ MixedAudio) =>
        LET fc == ffmpeg_cmd.filter_complex
        IN  /\ ChainsOf(fc, "aresample") = {}
            /\ \A c \in ChainsOf(fc, "concat") :
                  /\ fc[c].ins = <<"v0", "v1", "v2", "v3">>
                  /\ fc[c].filters[1].a = 0
            /\ Producers(fc, "outa") = {}
            /\ ffmpeg_cmd.maps = <<"final">>

\* C15 (as stated): at most 3 attempts are made for an input; each attempt
\* that is followed by another one is followed by a time.sleep(2) first,
\* however it failed; the last attempt is followed by none.
C15_BackoffBetweenAttempts ==
    /\ Len(outcomes) <= 3
    /\ pc = "attempt" => sleeps = Len(outcomes)
    /\ (pc # "attempt" /\ outcomes # <<>>) => sleeps = Len(outcomes) - 1

\* C16: when the command is built or run, exactly four files have been
\* accepted, video_0.mp4 .. video_3.mp4, each present with non-zero size
\* when accepted and still so, each probed once, and no download has been
\* given up.
C16_FullBatchBeforePlanning ==
    (pc \in {"plan", "run"} \/ Built) =>
        /\ Len(videos) = 4
        /\ video_files =
              <<"video_0.mp4", "video_1.mp4", "video_2.mp4", "video_3.mp4">>
        /\ Len(probed) = 4
        /\ exhausted = {}
        /\ pc \in {"plan", "run"} =>
              \A f \in InputFiles : fs[f].exists /\ fs[f].size > 0

\* C16 witness: the command builder is reached after downloads that needed
\* retries
C16_Witness ==
    /\ pc = "plan"
    /\ Len(video_files) = 4
    /\ Len(outcomes) = 3

\* C17 (as stated): the stages come in the order Fetching, Probing,
\* Planning, ...: no input is probed before all four downloads are done,
\* and no download attempt is made once an input has been probed.
C17_FetchAllThenProbe ==
    /\ pc = "analyze" => Len(video_files) = Len(videos)
    /\ pc \in {"attempt", "downloaded"} => probed = <<>>

\* the stage a position belongs to, downloading and probing taken as one
StageOf(p) ==
    CASE p = "main" -> 0
      [] p \in {"attempt", "downloaded", "analyze"} -> 1
      [] p = "plan" -> 2
      [] p = "run" -> 3
      [] p = "verify" -> 4
      [] p = "cleanup" -> 5
      [] p = "exit" -> 6

\* C17 (amended): the stages download-and-probe, build, run, verify, clean
\* up are entered in that order, one after the other or left for the exit,
\* and none is re-entered; inside the first, downloading and probing
\* alternate input by input: input i is downloaded only when inputs 0..i-1
\* have all been downloaded and probed, it is probed next, and after the
\* last probe no download attempt is made.
C17_InterleavedStages ==
    [][/\ StageOf(pc') >= StageOf(pc)
       /\ StageOf(pc') > StageOf(pc) =>
             (StageOf(pc') = StageOf(pc) + 1 \/ pc' = "exit")
       /\ pc \in {"attempt", "downloaded"} =>
             /\ Len(video_files) = i
             /\ Len(probed) = i
             /\ pc' \in {"attempt", "downloaded", "analyze", "exit"}
             /\ i' = i
       /\ pc = "analyze" =>
             /\ Len(video_files) = i + 1
             /\ Len(probed) = i
             /\ Len(probed') = i + 1
             /\ i' = i + 1
             /\ pc' = IF i + 1 < 4 THEN "attempt" ELSE "plan"
       /\ StageOf(pc) >= 2 =>
             /\ probed' = probed
             /\ outcomes' = outcomes]_vars

\* C17 witness: the second input is being downloaded after the first one
\* was probed
C17_Witness ==
    /\ pc = "attempt"
    /\ i = 1
    /\ Len(probed) = 1
    /\ outcomes # <<>>

\* C18: an input is probed only after its own download succeeded: when the
\* probe of input i is due, video_i.mp4 was returned by download_video, is
\* present and non-empty and is the newest accepted file; an input whose
\* download was given up is never probed.
C18_ProbeAfterOwnFetch ==
    /\ Len(probed) <= Len(video_files)
    /\ Len(video_files) <= Len(probed) + 1
    /\ pc = "analyze" =>
          /\ Len(video_files) = Len(probed) + 1
          /\ video_files[Len(video_files)] = filename(i)
          /\ downloaded = filename(i)
          /\ fs[filename(i)].exists
          /\ fs[filename(i)].size > 0
          /\ fs[filename(i)].src = videos[i + 1]
          /\ outcomes[Len(outcomes)] = "ok"
    /\ \A k \in exhausted : Len(probed) <= k

\* C18 witness: the third input is about to be probed after a download
\* that succeeded on its second attempt
C18_Witness ==
    /\ pc = "analyze"
    /\ i = 2
    /\ outcomes = <<"raise", "ok">>

\* C19: once the download of input i is given up, no attempt and no probe
\* is made for a later input, and the files of the earlier inputs are as
\* they were downloaded.
C19_FailFast ==
    \A k \in exhausted :
        /\ i = k
        /\ pc \in {"downloaded", "exit"}
        /\ Len(video_files) = k
        /\ Len(probed) = k
        /\ \A j \in (k + 1)..(MaxVideos - 1) : fs[filename(j)] = Absent
        /\ \A j \in 0..(k - 1) :
              /\ video_files[j + 1] = filename(j)
              /\ fs[filename(j)] = [exists |-> TRUE, size |-> 1,
                                    src |-> videos[j + 1]]

\* C19 witness: the third download was given up after two inputs were
\* fetched and probed, and the job has ended
C19_Witness ==
    /\ exhausted = {2}
    /\ Terminated
    /\ fs["video_0.mp4"].exists
    /\ fs["video_1.mp4"].exists
    /\ ~fs["video_3.mp4"].exists

\* C20: every command built maps exactly two streams: the overlaid video
\* [final] and one audio stream, [audio] (the processed sine input) when no
\* input has audio and [outa] (the concat's audio) otherwise; each is
\* written by exactly one chain of the graph.
C20_OneVideoOneAudioMap ==
    Built =>
        LET fc == ffmpeg_cmd.filter_complex
            maps == ffmpeg_cmd.maps
        IN  /\ Len(maps) = 2
            /\ maps[1] = "final"
            /\ maps[2] = IF AnyAudio THEN "outa" ELSE "audio"
            /\ Cardinality(Producers(fc, maps[1])) = 1
            /\ Cardinality(Producers(fc, maps[2])) = 1
            /\ \A k \in Producers(fc, "final") :
                  /\ fc[k].ins = <<"outv">>
                  /\ fc[k].filters[1].name = "drawtext"
            /\ \A k \in Producers(fc, "audio") :
                  /\ fc[k].ins = <<"4:a">>
                  /\ Len(ffmpeg_cmd.lavfi) = 1
                  /\ Len(ffmpeg_cmd.inputs) = 4
            /\ \A k \in Producers(fc, "outa") :
                  fc[k].filters[1].name = "concat"

\* C20 witness: a batch mixing inputs with and without audio, the first
\* with, whose command maps [outa]
C20_Witness ==
    /\ pc = "run"
    /\ MixedAudio
    /\ probed[1]
    /\ ffmpeg_cmd.maps = <<"final", "outa">>

(* ---------------------------------------------------------------------- *)
(* Reading the overlay text the way ffmpeg reads a filter chain: quotes     *)
(* group and are dropped, a comma outside quotes ends a filter; inside a    *)
(* filter the name comes before the first "=", and the options are          *)
(* key=value separated by ":"                                               *)
(* ---------------------------------------------------------------------- *)

\* a quote is open at piece k: an odd number of quotes came before it
InQuote(toks, k) == Cardinality({j \in 1..(k - 1) : toks[j] = "'"}) % 2 = 1

\* the pieces of toks cut at the positions seps, in order
Cut(toks, seps) ==
    LET at(n) == IF n = 0 THEN 0
                 ELSE IF n = Cardinality(seps) + 1 THEN Len(toks) + 1
                 ELSE CHOOSE k \in seps :
                         Cardinality({j \in seps : j < k}) = n - 1
    IN  [n \in 1..(Cardinality(seps) + 1) |->
            SubSeq(toks, at(n - 1) + 1, at(n) - 1)]

IsNotQuote(piece) == piece # "'"

\* the filters of a chain text: cut at the commas outside quotes, the quotes
\* themselves dropped
SplitFilters(toks) ==
    LET parts == Cut(toks, {k \in 1..Len(toks) :
                               toks[k] = "," /\ ~InQuote(toks, k)})
    IN  [n \in 1..Len(parts) |-> SelectSeq(parts[n], IsNotQuote)]

\* the options of a filter's argument text, cut at every ":"
SplitOptions(toks) == Cut(toks, {k \in 1..Len(toks) : toks[k] = ":"})

\* the value of option key among the options, <<"?">> when it is not there
\* or not of the form key=value
OptionValue(opts, key) ==
    LET hits == {k \in 1..Len(opts) :
                    /\ Len(opts[k]) >= 2
                    /\ opts[k][1] = key
                    /\ opts[k][2] = "="}
    IN  IF Cardinality(hits) = 1
        THEN LET o == opts[CHOOSE k \in hits : TRUE]
             IN  SubSeq(o, 3, Len(o))
        ELSE <<"?">>

\* one filter as read: its name, its text and its enable expression
ReadFilter(f) ==
    IF Len(f) >= 2 /\ f[2] = "="
    THEN LET opts == SplitOptions(SubSeq(f, 3, Len(f)))
         IN  [name |-> f[1],
              text |-> OptionValue(opts, "text"),
              enable |-> OptionValue(opts, "enable")]
    ELSE [name |-> IF f = <<>> THEN "?" ELSE f[1],
          text |-> <<"?">>, enable |-> <<"?">>]

\* the filters ffmpeg reads in a chain text
ReadChain(toks) ==
    LET fl == SplitFilters(toks)
    IN  [k \in 1..Len(fl) |-> ReadFilter(fl[k])]

\* the window expression between(t,lo,hi)
Between(lo, hi) == <<"between(t", ",", lo, ",", hi, ")">>

\* the graph has one overlay chain, from [outv] to [final], and ffmpeg reads
\* exactly two filters in it: a drawtext of the hook text enabled on [0,3]
\* and a drawtext of the title text enabled on [17,20]
TwoOverlays ==
    LET fc == ffmpeg_cmd.filter_complex
    IN  /\ Cardinality(ChainsOf(fc, "drawtext")) = 1
        /\ \A c \in ChainsOf(fc, "drawtext") :
              /\ fc[c].ins = <<"outv">>
              /\ fc[c].outs = <<"final">>
              /\ Cardinality(Producers(fc, "outv")) = 1
              /\ \A p \in Producers(fc, "outv") :
                    fc[p].filters[1].name = "concat"
              /\ LET read == ReadChain(fc[c].raw)
                 IN  /\ Len(read) = 2
                     /\ read[1].name = "drawtext"
                     /\ read[1].text = hook
                     /\ read[1].enable = Between("0", "3")
                     /\ read[2].name = "drawtext"
                     /\ read[2].text = title
                     /\ read[2].enable = Between("17", "20")

\* C13 (as stated): in both shapes of the command, whatever the hook and
\* title strings, the graph has exactly two text overlays on the
\* concatenated video: the hook, as given, enabled exactly on [0,3], and the
\* title, as given, enabled exactly on [17,20].
C13_TwoOverlaysAnyText == pc = "run" => TwoOverlays

\* the characters that end or change a quoted drawtext text
SpecialPieces == {"'", "\\", ":", "%"}

\* a text with none of them
PlainText(text) == \A k \in 1..Len(text) : text[k] \notin SpecialPieces

\* the overlay chain's text holds the hook and then the title, each as given
\* and each right between text=' and ':fontfile
Verbatim ==
    LET fc == ffmpeg_cmd.filter_complex
        opens == <<"drawtext", "=", "text", "=", "'">>
        closes == <<"'", ":", "fontfile", "=">>
    IN  \A c \in ChainsOf(fc, "drawtext") :
           LET raw == fc[c].raw
               h == Len(hook)
               second == Len(raw) - (Len(title) + 45)
           IN  /\ SubSeq(raw, 1, 5) = opens
               /\ SubSeq(raw, 6, 5 + h) = hook
               /\ SubSeq(raw, 6 + h, 9 + h) = closes
               /\ second = h + 46
               /\ raw[second] = ","
               /\ SubSeq(raw, second + 1, second + 5) = opens
               /\ SubSeq(raw, second + 6, second + 5 + Len(title)) = title
               /\ SubSeq(raw, second + 6 + Len(title),
                         second + 9 + Len(title)) = closes

\* C13 (amended): in both shapes of the command the hook and title strings
\* are written into the overlay text as given; for strings without a single
\* quote, backslash, colon or percent sign, the graph has exactly two text
\* overlays on the concatenated video: the hook enabled exactly on [0,3] and
\* the title enabled exactly on [17,20].
C13_TwoOverlaysPlainText ==
    pc = "run" =>
        /\ Verbatim
        /\ (PlainText(hook) /\ PlainText(title)) => TwoOverlays

\* C13 witness: a command of the audio-preserving shape with plain texts is
\* about to run
C13_Witness ==
    /\ pc = "run"
    /\ hook = <<"AMAZING">>
    /\ title = <<"Viral Video">>
    /\ ffmpeg_cmd.maps = <<"final", "outa">>
    /\ Verbatim
    /\ TwoOverlays

====
